---- MODULE Spec2Model ----
(***************************************************************************)
(* Verification model of the ScaffoQA assembly-graph pipeline:             *)
(*   - signed De Bruijn multigraph construction   (src/src/utility.py)     *)
(*   - edge register and QUBO assembly            (src/code/graph_path_problem.py, *)
(*                                                 src/src/qubo_util.py)   *)
(*   - DNA reconstruction and greedy path search  (src/src/reconstruit.py) *)
(* Python strings are modelled as sequences of one-character strings.      *)
(***************************************************************************)
EXTENDS Integers, Sequences, FiniteSets, TLC

VARIABLES
    G,              \* signed multigraph (nx.MultiDiGraph): nodes and keyed edges
    call,           \* the last operation called, its arguments and whether it raised
    graph,          \* directed graph (nx.DiGraph) held by GraphPathProblem.graph
    edges_register, \* GraphPathProblem.edges_register (bidict edge <-> index)
    reg_built,      \* TRUE once update_edges_register has been called
    Q,              \* value returned by the last get_qubo call
    title,          \* node attribute 'title': the DNA fragment of each node
    dna,            \* value returned by the last recontruct_DNA call
    visited,        \* find_path_always_first_neighbor: local 'visited'
    path,           \* find_path_always_first_neighbor: local 'path'
    cat,            \* find_path_always_first_neighbor: local 'cat'
    gpc,            \* find_path_always_first_neighbor: control position
    ret             \* value returned by the last call of a function of ortools/tools.py
                    \* or of convert_de_bruijn_to_digraph

vars == <<G, call, graph, edges_register, reg_built, Q, title, dna,
          visited, path, cat, gpc, ret>>

(***************************************************************************)
(* Bounds of the model                                                     *)
(***************************************************************************)
\* largest number of links stored in the signed multigraph
MaxStored == 4
\* largest number of raw link strings handed to one add_de_bruijn_edges call
MaxLinksPerCall == 2
\* largest number of edges of the directed graph
MaxEdges == 2
\* largest length of a node's DNA fragment
MaxSeqLen == 2
\* largest number of nodes of a path handed to recontruct_DNA
MaxPathLen == 3
\* largest overlap length k
MaxK == 1
\* most edges of a graph that is decomposed into Blocks
MaxBlockEdges == 4
\* most Blocks in a list of Blocks given to sharing_node_subgraph
MaxBlocks == 3
\* most add_de_bruijn_edge calls before a strand expansion
MaxStrandCalls == 1

\* segment ids of the signed graph (Python strings)
Segs == {<<"A">>, <<"B">>}
\* nodes of the directed graph
Nodes == {"A", "B", "C"}
\* value of an absent optional argument or result
None == "None"

(***************************************************************************)
(* Python helpers                                                          *)
(***************************************************************************)
Max(a, b) == IF a >= b THEN a ELSE b

Min(a, b) == IF a <= b THEN a ELSE b

\* s[lo:hi] with Python's treatment of negative and out-of-range bounds
PySlice(s, lo, hi) ==
    LET n == Len(s)
        l == IF lo < 0 THEN Max(n + lo, 0) ELSE Min(lo, n)
        h == IF hi < 0 THEN Max(n + hi, 0) ELSE Min(hi, n)
    IN  IF l >= h THEN <<>> ELSE SubSeq(s, l + 1, h)

RECURSIVE lstrip(_)
lstrip(s) == IF s # <<>> /\ Head(s) = " " THEN lstrip(Tail(s)) ELSE s

RECURSIVE rstrip(_)
rstrip(s) ==
    IF s # <<>> /\ s[Len(s)] = " " THEN rstrip(SubSeq(s, 1, Len(s) - 1)) ELSE s

\* str.strip()
strip(s) == rstrip(lstrip(s))

\* str.split(sep) for a one-character separator
RECURSIVE split(_, _)
split(s, sep) ==
    IF \A i \in 1..Len(s) : s[i] # sep
    THEN <<s>>
    ELSE LET i == CHOOSE j \in 1..Len(s) :
                      s[j] = sep /\ \A m \in 1..(j - 1) : s[m] # sep
         IN  <<SubSeq(s, 1, i - 1)>> \o split(SubSeq(s, i + 1, Len(s)), sep)

(***************************************************************************)
(* Signed De Bruijn multigraph (src/src/utility.py)                        *)
(***************************************************************************)
Plus == <<"+">>

Minus == <<"-">>

\* the exception raised on a malformed link or an invalid sign
ValueError == <<"ValueError">>

\* the signs a caller may pass to add_de_bruijn_edge, valid or not
SignArgs == {Plus, Minus, <<"x">>, <<>>}

reverse_sign(sign) ==
    IF sign = Plus THEN Minus
    ELSE IF sign = Minus THEN Plus
    ELSE ValueError

\* a stored link: the attribute dict of one keyed edge
Attrs(sb, se) == [sign_begin |-> sb, sign_end |-> se]

\* nx.MultiDiGraph(): no node, no edge
EmptyMultiDiGraph == [nodes |-> {}, adj |-> [p \in Segs \X Segs |-> <<>>]]

\* MultiDiGraph.add_edge(u, v, sign_begin=sb, sign_end=se): creates the
\* missing end nodes and appends one more keyed edge between u and v
MG_add_edge(g, u, v, sb, se) ==
    [nodes |-> g.nodes \cup {u, v},
     adj   |-> [g.adj EXCEPT ![<<u, v>>] = Append(@, Attrs(sb, se))]]

edge_with_sign_exists(g, u, v, sign_begin, sign_end) ==
    IF g.adj[<<u, v>>] = <<>>
    THEN FALSE
    ELSE \E key \in 1..Len(g.adj[<<u, v>>]) :
            /\ g.adj[<<u, v>>][key].sign_begin = sign_begin
            /\ g.adj[<<u, v>>][key].sign_end = sign_end

\* parse_de_bruijn_link: the parsed (sign1, target, sign2), or raised = TRUE
\* for the ValueError of a malformed link
ParseError == [raised |-> TRUE, sign1 |-> <<>>, target |-> <<>>, sign2 |-> <<>>]

parse_de_bruijn_link(link) ==
    IF link = <<>>
    THEN ParseError
    ELSE LET parts == split(strip(link), ":")
         IN  IF Len(parts) # 4 \/ parts[1] # <<"L">>
             THEN ParseError
             ELSE IF parts[2] \notin {Plus, Minus} \/ parts[4] \notin {Plus, Minus}
                  THEN ParseError
                  ELSE [raised |-> FALSE, sign1 |-> parts[2],
                        target |-> parts[3], sign2 |-> parts[4]]

\* add_de_bruijn_edge without the sign validation of its first statement
add_de_bruijn_edge_unvalidated(g, v1, v2, s1, s2) ==
    IF ~edge_with_sign_exists(g, v1, v2, s1, s2)
    THEN LET g1 == MG_add_edge(g, v1, v2, s1, s2)
         IN  IF reverse_sign(s2) = ValueError \/ reverse_sign(s1) = ValueError
             THEN [g |-> g1, raised |-> TRUE]
             ELSE [g |-> MG_add_edge(g1, v2, v1, reverse_sign(s2), reverse_sign(s1)),
                   raised |-> FALSE]
    ELSE [g |-> g, raised |-> FALSE]

\* add_de_bruijn_edge whose mirror keeps the order of the two signs
add_de_bruijn_edge_unswapped(g, v1, v2, s1, s2) ==
    IF s1 \notin {Plus, Minus} \/ s2 \notin {Plus, Minus}
    THEN [g |-> g, raised |-> TRUE]
    ELSE IF ~edge_with_sign_exists(g, v1, v2, s1, s2)
         THEN [g |-> MG_add_edge(MG_add_edge(g, v1, v2, s1, s2),
                                 v2, v1, reverse_sign(s1), reverse_sign(s2)),
               raised |-> FALSE]
         ELSE [g |-> g, raised |-> FALSE]

\* add_de_bruijn_edge: the graph after the call and whether the call raised.
\* The arguments of the second add_edge are evaluated after the first
\* add_edge has run, so an exception of reverse_sign leaves the first edge.
add_de_bruijn_edge(g, v1, v2, s1, s2) ==
    IF s1 \notin {Plus, Minus} \/ s2 \notin {Plus, Minus}
    THEN [g |-> g, raised |-> TRUE]
    ELSE IF ~edge_with_sign_exists(g, v1, v2, s1, s2)
         THEN LET g1 == MG_add_edge(g, v1, v2, s1, s2)
              IN  IF reverse_sign(s2) = ValueError \/ reverse_sign(s1) = ValueError
                  THEN [g |-> g1, raised |-> TRUE]
                  ELSE [g |-> MG_add_edge(g1, v2, v1,
                                          reverse_sign(s2), reverse_sign(s1)),
                        raised |-> FALSE]
         ELSE [g |-> g, raised |-> FALSE]

\* add_de_bruijn_edges: the loop over the raw links; a ValueError of the
\* parser or of the insertion is caught and counted as one diagnostic
RECURSIVE add_de_bruijn_edges(_, _, _)
add_de_bruijn_edges(g, v, links) ==
    IF links = <<>>
    THEN [g |-> g, skipped |-> 0]
    ELSE LET p == parse_de_bruijn_link(Head(links))
         IN  IF p.raised
             THEN LET rest == add_de_bruijn_edges(g, v, Tail(links))
                  IN  [g |-> rest.g, skipped |-> rest.skipped + 1]
             ELSE LET r    == add_de_bruijn_edge(g, v, p.target, p.sign1, p.sign2)
                      rest == add_de_bruijn_edges(r.g, v, Tail(links))
                  IN  [g |-> rest.g,
                       skipped |-> rest.skipped + (IF r.raised THEN 1 ELSE 0)]

\* number of links stored in the signed multigraph
NumStored(g) ==
    LET RECURSIVE Sum(_)
        Sum(S) == IF S = {} THEN 0
                  ELSE LET p == CHOOSE x \in S : TRUE
                       IN  Len(g.adj[p]) + Sum(S \ {p})
    IN  Sum(Segs \X Segs)

\* number of stored links with the tuple (u, v, sb, se)
CountLinks(g, u, v, sb, se) ==
    Cardinality({key \in 1..Len(g.adj[<<u, v>>]) :
                    g.adj[<<u, v>>][key] = Attrs(sb, se)})

(***************************************************************************)
(* Directed graph (nx.DiGraph), edge register and QUBO assembly            *)
(* (src/code/graph_path_problem.py, src/src/qubo_util.py)                  *)
(***************************************************************************)
\* nx.DiGraph(): nodes in insertion order, the successors and predecessors
\* of each node in insertion order, the optional 'weight' attribute of each
\* edge (<<>> when the edge carries none)
EmptyDiGraph ==
    [nodes  |-> <<>>,
     succ   |-> [n \in Nodes |-> <<>>],
     pred   |-> [n \in Nodes |-> <<>>],
     weight |-> [e \in Nodes \X Nodes |-> <<>>]]

\* x in the list s
InSeq(x, s) == \E i \in 1..Len(s) : s[i] = x

\* the list s without its element x
RemoveFrom(s, x) == SelectSeq(s, LAMBDA y : y # x)

\* the list s followed by x unless s has x already
AddOnce(s, x) == IF InSeq(x, s) THEN s ELSE Append(s, x)

\* DiGraph.add_edge(u, v, weight=w): creates the missing end nodes; an edge
\* that exists keeps its place and only has its attributes updated
DG_add_edge(g, u, v, w) ==
    [nodes  |-> AddOnce(AddOnce(g.nodes, u), v),
     succ   |-> [g.succ EXCEPT ![u] = AddOnce(@, v)],
     pred   |-> [g.pred EXCEPT ![v] = AddOnce(@, u)],
     weight |-> [g.weight EXCEPT ![<<u, v>>] = IF w = <<>> THEN @ ELSE w]]

\* DiGraph.remove_edge(u, v): the end nodes stay
DG_remove_edge(g, u, v) ==
    [nodes  |-> g.nodes,
     succ   |-> [g.succ EXCEPT ![u] = RemoveFrom(@, v)],
     pred   |-> [g.pred EXCEPT ![v] = RemoveFrom(@, u)],
     weight |-> [g.weight EXCEPT ![<<u, v>>] = <<>>]]

\* the concatenation of the lists of a list
RECURSIVE Flatten(_)
Flatten(ss) == IF ss = <<>> THEN <<>> ELSE Head(ss) \o Flatten(Tail(ss))

\* list(graph.edges()): node by node, each node's successors in order
DG_edges(g) ==
    Flatten([i \in 1..Len(g.nodes) |->
                [j \in 1..Len(g.succ[g.nodes[i]]) |->
                    <<g.nodes[i], g.succ[g.nodes[i]][j]>>]])

\* the set of edges of the graph
EdgeSet(g) == {e \in Nodes \X Nodes : InSeq(e[2], g.succ[e[1]])}

\* graph.edges[i, j].get("weight", 1)
EdgeWeight(g, i, j) ==
    IF g.weight[<<i, j>>] = <<>> THEN 1 ELSE g.weight[<<i, j>>][1]

\* bidict(): the forward mapping key -> value and its inverse
EmptyBidict == [fwd |-> <<>>, inv |-> <<>>, dup |-> FALSE]

\* bidict.__setitem__(key, val): a value held by another key is refused
\* (ValueDuplicationError, recorded in dup); a key that exists is rebound
bidict_put(b, key, val) ==
    IF \E k \in DOMAIN b.fwd : k # key /\ b.fwd[k] = val
    THEN [b EXCEPT !.dup = TRUE]
    ELSE [fwd |-> [k \in DOMAIN b.fwd \cup {key} |->
                      IF k = key THEN val ELSE b.fwd[k]],
          inv |-> [x \in {b.fwd[k] : k \in DOMAIN b.fwd \ {key}} \cup {val} |->
                      IF x = val THEN key ELSE b.inv[x]],
          dup |-> b.dup]

\* the loop of update_edges_register over enumerate(edges), counting from i
RECURSIVE register_from(_, _, _)
register_from(er, edges, i) ==
    IF edges = <<>> \/ er.dup
    THEN er
    ELSE register_from(bidict_put(er, Head(edges), i), Tail(edges), i + 1)

\* update_edges_register with the enumeration started at 1
update_edges_register_from_one(g) == register_from(EmptyBidict, DG_edges(g), 1)

\* GraphPathProblem.update_edges_register: the new value of edges_register
update_edges_register(g) == register_from(EmptyBidict, DG_edges(g), 0)

\* len(prob.edges_register)
RegLen(reg) == Cardinality(DOMAIN reg.fwd)

\* np.zeros((n, n)), rows and columns numbered from 0
zeros(n) == [p \in (0..(n - 1)) \X (0..(n - 1)) |-> 0]

\* A + B, entry by entry
MatAdd(A, B) == [p \in DOMAIN A |-> A[p] + B[p]]

\* c * A, entry by entry
MatScale(c, A) == [p \in DOMAIN A |-> c * A[p]]

\* Q[p] += val for every index pair p of the list ps, in order
RECURSIVE AddAt(_, _, _)
AddAt(M, ps, val) ==
    IF ps = <<>> THEN M
    ELSE AddAt([M EXCEPT ![Head(ps)] = @ + val], Tail(ps), val)

\* the pairs (x, y) of the nested loops 'for x in s: for y in t'
NestedLoops(s, t) ==
    [x \in 1..(Len(s) * Len(t)) |->
        <<s[((x - 1) \div Len(t)) + 1], t[((x - 1) % Len(t)) + 1]>>]

\* the register indices of the outgoing edges of i, in successor order
OutIdx(g, reg, i) ==
    [j \in 1..Len(g.succ[i]) |-> reg.fwd[<<i, g.succ[i][j]>>]]

\* the register indices of the incoming edges of i, in predecessor order
InIdx(g, reg, i) ==
    [j \in 1..Len(g.pred[i]) |-> reg.fwd[<<g.pred[i][j], i>>]]

\* the diagonal positions of a list of indices
Diag(idx) == [j \in 1..Len(idx) |-> <<idx[j], idx[j]>>]

add_quad_in(g, reg, M, i, val) ==
    AddAt(M, NestedLoops(InIdx(g, reg, i), InIdx(g, reg, i)), val)

add_quad_out(g, reg, M, i, val) ==
    AddAt(M, NestedLoops(OutIdx(g, reg, i), OutIdx(g, reg, i)), val)

add_quad_mix(g, reg, M, i, val) ==
    AddAt(M, NestedLoops(OutIdx(g, reg, i), InIdx(g, reg, i)), val)

add_lin_in(g, reg, M, j, val) == AddAt(M, Diag(InIdx(g, reg, j)), val)

add_lin_out(g, reg, M, i, val) == AddAt(M, Diag(OutIdx(g, reg, i)), val)

\* get_qubo_main: the loop 'Q[ind, ind] = weight' over the edges in order
RECURSIVE main_loop(_, _, _, _)
main_loop(g, reg, M, edges) ==
    IF edges = <<>> THEN M
    ELSE LET e == Head(edges)
         IN  main_loop(g, reg,
                       [M EXCEPT ![<<reg.fwd[e], reg.fwd[e]>>] =
                                     EdgeWeight(g, e[1], e[2])],
                       Tail(edges))

get_qubo_main(g, reg) == main_loop(g, reg, zeros(RegLen(reg)), DG_edges(g))

RECURSIVE out_loop(_, _, _, _)
out_loop(g, reg, M, ns) ==
    IF ns = <<>> THEN M
    ELSE out_loop(g, reg,
                  add_quad_out(g, reg, add_lin_out(g, reg, M, Head(ns), -2),
                               Head(ns), 1),
                  Tail(ns))

get_qubo_out(g, reg) == out_loop(g, reg, zeros(RegLen(reg)), g.nodes)

RECURSIVE in_loop(_, _, _, _)
in_loop(g, reg, M, ns) ==
    IF ns = <<>> THEN M
    ELSE in_loop(g, reg,
                 add_quad_in(g, reg, add_lin_in(g, reg, M, Head(ns), -2),
                             Head(ns), 1),
                 Tail(ns))

get_qubo_in(g, reg) == in_loop(g, reg, zeros(RegLen(reg)), g.nodes)

\* the loop of get_qubo_flow without its add_quad_mix term
RECURSIVE flow_loop_nomix(_, _, _, _)
flow_loop_nomix(g, reg, M, ns) ==
    IF ns = <<>> THEN M
    ELSE flow_loop_nomix(g, reg,
             add_quad_in(g, reg, add_quad_out(g, reg, M, Head(ns), 1),
                         Head(ns), 1),
             Tail(ns))

RECURSIVE flow_loop(_, _, _, _)
flow_loop(g, reg, M, ns) ==
    IF ns = <<>> THEN M
    ELSE flow_loop(g, reg,
             add_quad_in(g, reg,
                 add_quad_mix(g, reg, add_quad_out(g, reg, M, Head(ns), 1),
                              Head(ns), -2),
                 Head(ns), 1),
             Tail(ns))

\* get_qubo_flow without the in-flow/out-flow cross terms
get_qubo_flow_nomix(g, reg) ==
    flow_loop_nomix(g, reg, zeros(RegLen(reg)), g.nodes)

get_qubo_flow(g, reg) == flow_loop(g, reg, zeros(RegLen(reg)), g.nodes)

get_qubo_flow_start(g, reg, start) ==
    add_lin_out(g, reg, add_lin_in(g, reg, zeros(RegLen(reg)), start, -2),
                start, 2)

get_qubo_flow_finish(g, reg, finish) ==
    add_lin_out(g, reg, add_lin_in(g, reg, zeros(RegLen(reg)), finish, 2),
                finish, -2)

\* symetrize that returns its argument
symetrize_identity(A) == A

\* symetrize that does not take the diagonal off
symetrize_keep_diag(A) == [p \in DOMAIN A |-> A[p] + A[<<p[2], p[1]>>]]

\* A + A.T - np.diag(A.diagonal())
symetrize(A) ==
    [p \in DOMAIN A |->
        A[p] + A[<<p[2], p[1]>>] - (IF p[1] = p[2] THEN A[p] ELSE 0)]

\* the value of a get_qubo call: a matrix of size n, or the exception raised
QuboResult(status, n, m) == [status |-> status, n |-> n, m |-> m]

NoQ == QuboResult("none", 0, <<>>)

\* get_qubo that refuses a register whose keys are not the graph's edges
get_qubo_refuse_stale(g, reg, delta, alpha, beta, gamma, start, finish) ==
    IF EdgeSet(g) # DOMAIN reg.fwd
    THEN QuboResult("KeyError", 0, <<>>)
    ELSE IF (start # None /\ ~InSeq(start, g.nodes))
              \/ (finish # None /\ ~InSeq(finish, g.nodes))
         THEN QuboResult("NetworkXError", 0, <<>>)
         ELSE LET Q_main == get_qubo_main(g, reg)
                  Q_out  == get_qubo_out(g, reg)
                  Q_in   == get_qubo_in(g, reg)
                  Q_f0   == get_qubo_flow(g, reg)
                  Q_f1   == IF start # None
                            THEN MatAdd(Q_f0, get_qubo_flow_start(g, reg, start))
                            ELSE Q_f0
                  Q_flow == IF finish # None
                            THEN MatAdd(Q_f1, get_qubo_flow_finish(g, reg, finish))
                            ELSE Q_f1
              IN  QuboResult("ok", RegLen(reg),
                      symetrize(MatAdd(MatAdd(MatScale(delta, Q_main),
                                              MatScale(alpha, Q_out)),
                                       MatAdd(MatScale(beta, Q_in),
                                              MatScale(gamma, Q_flow)))))

\* get_qubo.  The first register lookup of an edge that is not a key raises
\* KeyError (get_qubo_main visits every edge of the graph); predecessors() of
\* a start or finish node that is not in the graph raises NetworkXError.
get_qubo(g, reg, delta, alpha, beta, gamma, start, finish) ==
    IF \E e \in EdgeSet(g) : e \notin DOMAIN reg.fwd
    THEN QuboResult("KeyError", 0, <<>>)
    ELSE IF (start # None /\ ~InSeq(start, g.nodes))
              \/ (finish # None /\ ~InSeq(finish, g.nodes))
         THEN QuboResult("NetworkXError", 0, <<>>)
         ELSE LET Q_main == get_qubo_main(g, reg)
                  Q_out  == get_qubo_out(g, reg)
                  Q_in   == get_qubo_in(g, reg)
                  Q_f0   == get_qubo_flow(g, reg)
                  Q_f1   == IF start # None
                            THEN MatAdd(Q_f0, get_qubo_flow_start(g, reg, start))
                            ELSE Q_f0
                  Q_flow == IF finish # None
                            THEN MatAdd(Q_f1, get_qubo_flow_finish(g, reg, finish))
                            ELSE Q_f1
              IN  QuboResult("ok", RegLen(reg),
                      symetrize(MatAdd(MatAdd(MatScale(delta, Q_main),
                                              MatScale(alpha, Q_out)),
                                       MatAdd(MatScale(beta, Q_in),
                                              MatScale(gamma, Q_flow)))))

(***************************************************************************)
(* DNA reconstruction and greedy search (src/src/reconstruit.py,           *)
(* GraphPathProblem.combine_DNA / recontruct_DNA / find_path_always_...)   *)
(***************************************************************************)
\* combine_DNA that does not cut the overlap off the assembled sequence
combine_DNA_keep_overlap(t, s, v, k) ==
    [dna |-> s \o t[v], errors |-> 0]

\* combine_DNA: the new sequence, and 1 in 'errors' when the 'sequence not
\* matching' diagnostic is printed; t maps a node to its 'title'
combine_DNA(t, s, v, k) ==
    LET sequence_of_v == t[v]
    IN  IF s # <<>>
        THEN [dna    |-> PySlice(s, 0, Len(s) - k) \o sequence_of_v,
              errors |-> IF PySlice(s, Len(s) - k, Len(s))
                               # PySlice(sequence_of_v, 0, k)
                         THEN 1 ELSE 0]
        ELSE [dna |-> sequence_of_v, errors |-> 0]

\* the loop of recontruct_DNA, from the sequence assembled so far
RECURSIVE dna_loop(_, _, _, _)
dna_loop(t, acc, path_on_graph, k) ==
    IF path_on_graph = <<>>
    THEN acc
    ELSE LET r == combine_DNA(t, acc.dna, Head(path_on_graph), k)
         IN  dna_loop(t, [dna |-> r.dna, errors |-> acc.errors + r.errors],
                      Tail(path_on_graph), k)

recontruct_DNA(t, path_on_graph, k) ==
    dna_loop(t, [dna |-> <<>>, errors |-> 0], path_on_graph, k)

\* the local state of find_path_always_first_neighbor
GreedyState(vis, pth, c, pc) == [visited |-> vis, path |-> pth, cat |-> c, pc |-> pc]

\* find_path_always_first_neighbor, lines 76-78: the state before the loop
greedy_start(starting_point) ==
    GreedyState({starting_point}, <<starting_point>>, starting_point, "loop")

\* one iteration of the loop that never adds the neighbour to 'visited'
greedy_iteration_forgetful(g, st) ==
    IF ~InSeq(st.cat, g.nodes)
    THEN [st EXCEPT !.pc = "error"]
    ELSE LET successors == g.succ[st.cat]
         IN  IF successors = <<>>
             THEN [st EXCEPT !.pc = "done"]
             ELSE IF successors[1] \in st.visited
                  THEN [st EXCEPT !.pc = "done"]
                  ELSE GreedyState(st.visited, Append(st.path, successors[1]),
                                   successors[1], "loop")

\* one iteration of the 'while True' loop; G.successors of a node that is
\* not in the graph raises NetworkXError
greedy_iteration(g, st) ==
    IF ~InSeq(st.cat, g.nodes)
    THEN [st EXCEPT !.pc = "error"]
    ELSE LET successors == g.succ[st.cat]
         IN  IF successors = <<>>
             THEN [st EXCEPT !.pc = "done"]
             ELSE IF successors[1] \in st.visited
                  THEN [st EXCEPT !.pc = "done"]
                  ELSE GreedyState(st.visited \cup {successors[1]},
                                   Append(st.path, successors[1]),
                                   successors[1], "loop")

(***************************************************************************)
(* Bridges and Blocks (src/ortools/tools.py)                               *)
(***************************************************************************)
\* nothing returned
NoRet == <<>>

\* G.in_degree[node], G.out_degree[node] of a DiGraph
in_degree(g, node) == Len(g.pred[node])
out_degree(g, node) == Len(g.succ[node])

\* 1 & b for a non-negative integer b
BitAnd1(b) == b % 2

\* bridge_graph: 'a == 1 & b == 1' is the chained comparison
\* a == (1 & b) and (1 & b) == 1, since & binds tighter than ==
bridge_graph(g) ==
    SelectSeq(g.nodes,
              LAMBDA node : /\ in_degree(g, node) = BitAnd1(out_degree(g, node))
                            /\ BitAnd1(out_degree(g, node)) = 1)

\* the set of the nodes of a list
ToSet(s) == {s[i] : i \in 1..Len(s)}

\* the weakly connected component of the nodes S in g restricted to 'keep'
RECURSIVE component(_, _, _)
component(g, keep, S) ==
    LET T == S \cup {m \in keep : \E n \in S : InSeq(m, g.succ[n]) \/ InSeq(m, g.pred[n])}
    IN  IF T = S THEN S ELSE component(g, keep, T)

\* nx.weakly_connected_components of g restricted to 'keep': one component
\* per first unseen node, in node order
RECURSIVE weakly_connected_components(_, _, _, _)
weakly_connected_components(g, keep, ns, seen) ==
    IF ns = <<>> THEN <<>>
    ELSE IF Head(ns) \in seen
         THEN weakly_connected_components(g, keep, Tail(ns), seen)
         ELSE LET c == component(g, keep, {Head(ns)})
              IN  <<c>> \o weakly_connected_components(g, keep, Tail(ns), seen \cup c)

\* sorted(cs, key=len, reverse=True): stable, largest first
sorted_by_len_reverse(cs) ==
    LET N == Cardinality(Nodes)
    IN  Flatten([i \in 1..N |->
                    SelectSeq(cs, LAMBDA c : Cardinality(c) = N + 1 - i)])

\* nx.subgraph(G, set_nodes).copy(): the induced subgraph; 'nature' is the
\* node attribute set by decomposition ("none" when the node has none)
subgraph(g, set_nodes) ==
    [nodes  |-> set_nodes,
     edges  |-> {e \in EdgeSet(g) : e[1] \in set_nodes /\ e[2] \in set_nodes},
     nature |-> [n \in Nodes |-> "none"]]

\* decomposition, lines 62-66 and 70-74: the bridge is attached to the Block
attach(sub, u, v, node, tag) ==
    [nodes  |-> sub.nodes \cup {node},
     edges  |-> sub.edges \cup {<<u, v>>},
     nature |-> [sub.nature EXCEPT ![node] = tag]]

\* decomposition, lines 61-74: the loop over the bridges, from the k-th
RECURSIVE attach_bridges(_, _, _, _, _)
attach_bridges(sub, node_deg_2, node_pre, node_suc, k) ==
    IF k > Len(node_deg_2) THEN sub
    ELSE LET node == node_deg_2[k]
             s1 == IF node_pre[k] \in sub.nodes
                   THEN attach(sub, node_pre[k], node, node, "end_node")
                   ELSE sub
             s2 == IF node_suc[k] \in s1.nodes
                   THEN attach(s1, node, node_suc[k], node, "start_node")
                   ELSE s1
         IN  attach_bridges(s2, node_deg_2, node_pre, node_suc, k + 1)

\* decomposition(G): the Blocks, with the lists the function records
decomposition(g) ==
    LET node_deg_2 == bridge_graph(g)
        node_pre == Flatten([k \in 1..Len(node_deg_2) |-> g.pred[node_deg_2[k]]])
        node_suc == Flatten([k \in 1..Len(node_deg_2) |-> g.succ[node_deg_2[k]]])
        G_copy_nodes == SelectSeq(g.nodes, LAMBDA n : ~InSeq(n, node_deg_2))
        list_connected_compossant ==
            sorted_by_len_reverse(
                weakly_connected_components(g, ToSet(G_copy_nodes), G_copy_nodes, {}))
    IN  [node_deg_2 |-> node_deg_2,
         node_pre |-> node_pre,
         node_suc |-> node_suc,
         list_subgraph |->
             [i \in 1..Len(list_connected_compossant) |->
                 attach_bridges(subgraph(g, list_connected_compossant[i]),
                                node_deg_2, node_pre, node_suc, 1)]]

\* subgraph.has_node(node)
has_node(sub, node) == node \in sub.nodes

\* sharing_nodes: for each bridge the Blocks that contain it, in list order
\* (a Block is named by its place in list_subgraph)
sharing_nodes(node_bridge, list_subgraph) ==
    [node \in ToSet(node_bridge) |->
        SelectSeq([i \in 1..Len(list_subgraph) |-> i],
                  LAMBDA i : has_node(list_subgraph[i], node))]

\* the list l without its first element equal to x (list.remove)
RECURSIVE list_remove(_, _)
list_remove(l, x) ==
    IF l = <<>> THEN <<>>
    ELSE IF Head(l) = x THEN Tail(l) ELSE <<Head(l)>> \o list_remove(Tail(l), x)

\* sharing_node_subgraph, lines 143-146: 'for node in node_bridge_copy' with
\* the list iterator at position i, while the body removes from that list;
\* liste_subgraphs[0] and liste_subgraphs[1] raise IndexError when missing
RECURSIVE group_loop(_, _, _, _, _)
group_loop(list_subgraph, liste_subgraphs, node_bridge_copy, i, group) ==
    IF i > Len(node_bridge_copy)
    THEN [raised |-> FALSE, copy |-> node_bridge_copy, group |-> group]
    ELSE IF Len(liste_subgraphs) < 2
         THEN [raised |-> TRUE, copy |-> node_bridge_copy, group |-> group]
         ELSE LET node == node_bridge_copy[i]
              IN  IF /\ has_node(list_subgraph[liste_subgraphs[1]], node)
                     /\ has_node(list_subgraph[liste_subgraphs[2]], node)
                  THEN group_loop(list_subgraph, liste_subgraphs,
                                  list_remove(node_bridge_copy, node), i + 1,
                                  Append(group, node))
                  ELSE group_loop(list_subgraph, liste_subgraphs,
                                  node_bridge_copy, i + 1, group)

\* sharing_node_subgraph, lines 132-148: the while loop
RECURSIVE while_loop(_, _, _, _, _)
while_loop(list_subgraph, registre_bridge, node_bridge_copy, bridge_int, subgraphe_int) ==
    IF node_bridge_copy = <<>>
    THEN [status |-> "ok", registre_bridge_int |-> bridge_int,
          registres_subgraphe_int |-> subgraphe_int]
    ELSE LET node == node_bridge_copy[1]
             liste_subgraphs == registre_bridge[node]
             r == group_loop(list_subgraph, liste_subgraphs,
                             list_remove(node_bridge_copy, node), 1, <<node>>)
         IN  IF r.raised
             THEN [status |-> "IndexError", registre_bridge_int |-> <<>>,
                   registres_subgraphe_int |-> <<>>]
             ELSE while_loop(list_subgraph, registre_bridge, r.copy,
                             Append(bridge_int, r.group),
                             Append(subgraphe_int, liste_subgraphs))

\* sharing_node_subgraph(node_bridge, list_subgraph): the two tables, the
\* k-th group of bridges and the Blocks recorded for it
sharing_node_subgraph(node_bridge, list_subgraph) ==
    while_loop(list_subgraph, sharing_nodes(node_bridge, list_subgraph),
               node_bridge, <<>>, <<>>)

(***************************************************************************)
(* The constraint model of opti_or_tool (src/ortools/tools.py)             *)
(***************************************************************************)
\* registre_edges(G): the edges of G.edges() numbered from 0
registre_edges(g) ==
    [e \in EdgeSet(g) |->
        (CHOOSE i \in 1..Len(DG_edges(g)) : DG_edges(g)[i] = e) - 1]

\* sum(objective_terms) for a list of integer terms
RECURSIVE sum(_)
sum(terms) == IF terms = <<>> THEN 0 ELSE Head(terms) + sum(Tail(terms))

\* opti_or_tool, lines 230-243: the linear terms of the objective for the
\* values x of the boolean variables
or_linear_terms(g, reg, x, alpha, beta, gamma, delta) ==
    [i \in 1..Len(DG_edges(g)) |-> (0 - delta) * x[i - 1]]
    \o Flatten([n \in 1..Len(g.nodes) |->
          LET node == g.nodes[n]
          IN  [s \in 1..Len(g.succ[node]) |->
                  (gamma - alpha) * x[reg[<<node, g.succ[node][s]>>]]]
              \o [q \in 1..Len(g.pred[node]) |->
                  (gamma - beta) * x[reg[<<g.pred[node][q], node>>]]]])

\* opti_or_tool, lines 248-288: the quadratic terms; each auxiliary variable
\* Y_kj, y_ik, z_jk is constrained to the product of its two variables
or_quadratic_terms(g, reg, x, alpha, beta, gamma) ==
    Flatten([n \in 1..Len(g.nodes) |->
        LET node == g.nodes[n]
            sucessor == g.succ[node]
            predecessor == g.pred[node]
        IN  Flatten([j \in 1..Len(sucessor) |->
                [k \in 1..Len(sucessor) |->
                    IF sucessor[j] # sucessor[k]
                    THEN (alpha + gamma) * x[reg[<<node, sucessor[k]>>]]
                                         * x[reg[<<node, sucessor[j]>>]]
                    ELSE 0]])
            \o Flatten([i \in 1..Len(predecessor) |->
                [k \in 1..Len(predecessor) |->
                    IF predecessor[i] # predecessor[k]
                    THEN (beta + gamma) * x[reg[<<predecessor[i], node>>]]
                                        * x[reg[<<predecessor[k], node>>]]
                    ELSE 0]])
            \o Flatten([k \in 1..Len(sucessor) |->
                [j \in 1..Len(predecessor) |->
                    (0 - 2 * gamma) * x[reg[<<predecessor[j], node>>]]
                                    * x[reg[<<node, sucessor[k]>>]]]])])

\* the value of the objective of opti_or_tool (no start_node, no end_node)
or_objective(g, x, alpha, beta, gamma, delta) ==
    LET registre_edges_G == registre_edges(g)
    IN  sum(or_linear_terms(g, registre_edges_G, x, alpha, beta, gamma, delta))
        + sum(or_quadratic_terms(g, registre_edges_G, x, alpha, beta, gamma))

\* the values of x for which solver.Solve(model) can report OPTIMAL
or_optimal(g, alpha, beta, gamma, delta) ==
    LET n == Len(DG_edges(g))
        X == [0..(n - 1) -> {0, 1}]
    IN  {x \in X : \A y \in X :
            or_objective(g, x, alpha, beta, gamma, delta)
                <= or_objective(g, y, alpha, beta, gamma, delta)}

(***************************************************************************)
(* Strand expansion (src/src/utility.py, convert_de_bruijn_to_digraph)     *)
(***************************************************************************)
\* str.upper() on the letters of the model
upper(s) ==
    [i \in 1..Len(s) |->
        CASE s[i] = "a" -> "A" [] s[i] = "c" -> "C" [] s[i] = "g" -> "G"
          [] s[i] = "t" -> "T" [] s[i] = "n" -> "N" [] OTHER -> s[i]]

\* the dict 'complement' of reverse_complement
complement == [nuc \in {"A", "T", "C", "G"} |->
                  CASE nuc = "A" -> "T" [] nuc = "T" -> "A"
                    [] nuc = "C" -> "G" [] nuc = "G" -> "C"]

\* reverse_complement: the sequence, or raised = TRUE for the ValueError of
\* a character that is no nucleotide
reverse_complement(dna_sequence) ==
    LET d == upper(strip(dna_sequence))
    IN  IF \E i \in 1..Len(d) : d[i] \notin DOMAIN complement
        THEN [raised |-> TRUE, seq |-> <<>>]
        ELSE [raised |-> FALSE,
              seq |-> [i \in 1..Len(d) |-> complement[d[Len(d) + 1 - i]]]]

\* "c" + val: the name of the complement node
comp_node(val) == <<"c">> \o val

\* the stored links (u, v, sign_begin, sign_end) of G.edges(data=True)
stored_links(g) ==
    UNION {{<<p[1], p[2], g.adj[p][key].sign_begin, g.adj[p][key].sign_end>> :
               key \in DOMAIN g.adj[p]} : p \in DOMAIN g.adj}

\* lines 292-293 with the signs ignored: always the forward nodes
resolve_edge_forward(u, v, sign_begin, sign_end) == <<u, v>>

\* lines 292-293: the source and the destination of the directed edge
resolve_edge(u, v, sign_begin, sign_end) ==
    <<IF sign_begin = Plus THEN u ELSE comp_node(u),
      IF sign_end = Plus THEN v ELSE comp_node(v)>>

\* convert_de_bruijn_to_digraph(G): the DiGraph returned (its nodes, their
\* 'title' and its edges), or status "ValueError" when reverse_complement
\* raises; t gives the 'title' of the nodes of G
convert_de_bruijn_to_digraph(g, t) ==
    IF \E node \in g.nodes : reverse_complement(t[node]).raised
    THEN [status |-> "ValueError", nodes |-> {}, title |-> <<>>, edges |-> {}]
    ELSE LET all_nodes == g.nodes \cup {comp_node(node) : node \in g.nodes}
             \* add_nodes_from copies the titles, then add_node(comp_node, ...)
             \* sets the title of every complement node
             DG_title ==
                 [x \in all_nodes |->
                     IF \E node \in g.nodes : comp_node(node) = x
                     THEN reverse_complement(
                              t[CHOOSE node \in g.nodes : comp_node(node) = x]).seq
                     ELSE t[x]]
             DG_edges_added ==
                 {resolve_edge(l[1], l[2], l[3], l[4]) :
                     l \in {m \in stored_links(g) :
                               m[3] \in {Plus, Minus} /\ m[4] \in {Plus, Minus}}}
             \* remove_isolated_nodes: the nodes of degree 0 go
             kept == {x \in all_nodes :
                         \E e \in DG_edges_added : e[1] = x \/ e[2] = x}
         IN  [status |-> "ok", nodes |-> kept,
              title |-> [x \in kept |-> DG_title[x]],
              edges |-> DG_edges_added]

(***************************************************************************)
(* Exhaustive searches (src/src/reconstruit.py, GraphPathProblem)          *)
(***************************************************************************)
\* the locals shared by the calls of the nested dfs: path, visited and the
\* nonlocal longest_path; raised names the exception that ended the search
DfsState(pth, vis, longest, raised) ==
    [path |-> pth, visited |-> vis, longest_path |-> longest, raised |-> raised]

\* the backtracking that forgets to remove the node from 'visited'
backtrack_keep_visited(st, current) ==
    [st EXCEPT !.path = SubSeq(@, 1, Len(@) - 1)]

\* dfs, lines 119-121: path.pop() and visited.remove(current)
backtrack(st, current) ==
    [st EXCEPT !.path = SubSeq(@, 1, Len(@) - 1),
               !.visited = @ \ {current}]

\* find_longest_path_dfs, the nested dfs(current, path, visited) and its
\* loop over G.successors(current) from the i-th successor on
RECURSIVE dfs(_, _, _)
RECURSIVE dfs_loop(_, _, _, _, _)
dfs_loop(g, current, i, extended, st) ==
    IF st.raised # "none" THEN st
    ELSE IF i > Len(g.succ[current])
    THEN backtrack(
             IF ~extended /\ Len(st.path) > Len(st.longest_path)
             THEN [st EXCEPT !.longest_path = st.path]
             ELSE st,
             current)
    ELSE LET neighbor == g.succ[current][i]
         IN  IF neighbor \notin st.visited
             THEN dfs_loop(g, current, i + 1, TRUE, dfs(g, neighbor, st))
             ELSE dfs_loop(g, current, i + 1, extended, st)

dfs(g, current, st) ==
    LET st1 == [st EXCEPT !.visited = @ \cup {current},
                          !.path = Append(@, current)]
    IN  IF ~InSeq(current, g.nodes)
        THEN [st1 EXCEPT !.raised = "NetworkXError"]
        ELSE dfs_loop(g, current, 1, FALSE, st1)

\* find_longest_path_dfs(G, starting_point): the final locals; the value
\* returned is longest_path
find_longest_path_dfs(g, starting_point) ==
    dfs(g, starting_point, DfsState(<<>>, {}, <<>>, "none"))

\* find_longest_dna_path_dfs_to, the nested dfs and its loop over
\* self.graph.predecessors(current).  At a dead end, line 236 calls
\* self.recontruct_DNA(self.graph, path, self.k_mer): the method of lines
\* 68-79 takes one argument besides self, so the call raises TypeError.
RECURSIVE dfs_to(_, _, _)
RECURSIVE dfs_to_loop(_, _, _, _, _)
dfs_to_loop(g, current, i, extended, st) ==
    IF st.raised # "none" THEN st
    ELSE IF i > Len(g.pred[current])
    THEN IF ~extended
         THEN [st EXCEPT !.raised = "TypeError"]
         ELSE backtrack(st, current)
    ELSE LET neighbor == g.pred[current][i]
         IN  IF neighbor \notin st.visited
             THEN dfs_to_loop(g, current, i + 1, TRUE, dfs_to(g, neighbor, st))
             ELSE dfs_to_loop(g, current, i + 1, extended, st)

dfs_to(g, current, st) ==
    LET st1 == [st EXCEPT !.visited = @ \cup {current},
                          !.path = Append(@, current)]
    IN  IF ~InSeq(current, g.nodes)
        THEN [st1 EXCEPT !.raised = "NetworkXError"]
        ELSE dfs_to_loop(g, current, 1, FALSE, st1)

\* GraphPathProblem.find_longest_dna_path_dfs_to(finish_point)
find_longest_dna_path_dfs_to(g, finish_point) ==
    dfs_to(g, finish_point, DfsState(<<>>, {}, <<>>, "none"))

(***************************************************************************)
(* Path check and path listing (src/src/tools_base.py)                     *)
(***************************************************************************)
\* check_path, line 68: the nodes of in-degree 0, in node order
nodes_in_degree_0(g) == SelectSeq(g.nodes, LAMBDA node : in_degree(g, node) = 0)

\* check_path, line 69: the nodes of out-degree 0, in node order
nodes_out_degree_0(g) == SelectSeq(g.nodes, LAMBDA node : out_degree(g, node) = 0)

\* check_path(G)
check_path(g) ==
    LET node_start == nodes_in_degree_0(g)
        node_end == nodes_out_degree_0(g)
    IN  IF Len(node_start) # 1 THEN FALSE
        ELSE IF Len(node_end) # 1 THEN FALSE
        ELSE LET nodes_without_start_end ==
                     SelectSeq(g.nodes, LAMBDA node :
                         node # node_start[1] /\ node # node_end[1])
             IN  \A i \in 1..Len(nodes_without_start_end) :
                     LET node == nodes_without_start_end[i]
                     IN  ~(in_degree(g, node) # 1 \/ out_degree(g, node) # 1)

\* recontruct_path, the loop of lines 93-95.  The walk depends on
\* node_start[0] alone, so a node met twice is met forever: "loops" stands
\* for the run that never leaves the while.
RECURSIVE path_walk(_, _, _)
path_walk(g, node_start, list_nodes) ==
    IF node_start = <<>>
    THEN [status |-> "ok", returned |-> "list", list_nodes |-> list_nodes]
    ELSE IF InSeq(node_start[1], list_nodes)
    THEN [status |-> "loops", returned |-> "nothing", list_nodes |-> list_nodes]
    ELSE path_walk(g, g.succ[node_start[1]], Append(list_nodes, node_start[1]))

\* recontruct_path(G): a list, or None after printing "G isn't a path"
recontruct_path(g) ==
    IF check_path(g)
    THEN path_walk(g, nodes_in_degree_0(g), <<>>)
    ELSE [status |-> "ok", returned |-> None, list_nodes |-> <<>>]

(***************************************************************************)
(* Operations on the signed multigraph                                     *)
(***************************************************************************)
\* 'L:<sign1>:<target>:<sign2>'
LinkStr(s1, t, s2) == <<"L", ":">> \o s1 \o <<":">> \o t \o <<":">> \o s2

\* the raw link strings handed to add_de_bruijn_edges: well-formed links
\* (one of them padded with blanks), a link with an invalid sign, a link with
\* a missing field, a token with a wrong tag and the empty string
RawLinks ==
    { LinkStr(Plus, <<"B">>, Plus),
      LinkStr(Plus, <<"A">>, Minus),
      LinkStr(Minus, <<"A">>, Plus),
      <<" ">> \o LinkStr(Minus, <<"B">>, Minus) \o <<" ">>,
      LinkStr(<<"x">>, <<"B">>, Plus),
      <<"L", ":", "+", ":", "B">>,
      <<"X", ":", "+", ":", "B", ":", "+">>,
      <<>> }

\* the lists of at most n raw links
RECURSIVE LinkLists(_)
LinkLists(n) ==
    IF n = 0 THEN {<<>>}
    ELSE LinkLists(n - 1) \cup
         {Append(l, x) : l \in {m \in LinkLists(n - 1) : Len(m) = n - 1},
                         x \in RawLinks}

\* the record of a call: the operation, its arguments, whether it raised
NoCall == [op |-> "none", v1 |-> <<>>, v2 |-> <<>>, s1 |-> <<>>, s2 |-> <<>>,
           links |-> <<>>, raised |-> FALSE, skipped |-> 0,
           delta |-> 0, alpha |-> 0, beta |-> 0, gamma |-> 0,
           start |-> None, finish |-> None, nodes |-> <<>>, k |-> 0]

\* a direct call add_de_bruijn_edge(G, v1, v2, s1, s2)
AddEdgeCall ==
    \E v1 \in Segs, v2 \in Segs, s1 \in SignArgs, s2 \in SignArgs :
        LET r == add_de_bruijn_edge(G, v1, v2, s1, s2)
        IN  /\ call.op = "none"
            /\ NumStored(r.g) <= MaxStored
            /\ G' = r.g
            /\ call' = [NoCall EXCEPT !.op = "add_de_bruijn_edge",
                                      !.v1 = v1, !.v2 = v2, !.s1 = s1, !.s2 = s2,
                                      !.raised = r.raised]
            /\ UNCHANGED <<graph, edges_register, reg_built, Q, title, dna,
                           visited, path, cat, gpc, ret>>

\* a call add_de_bruijn_edges(G, v, links)
AddEdgesCall ==
    \E v \in Segs, links \in LinkLists(MaxLinksPerCall) :
        LET r == add_de_bruijn_edges(G, v, links)
        IN  /\ call.op = "none"
            /\ NumStored(r.g) <= MaxStored
            /\ G' = r.g
            /\ call' = [NoCall EXCEPT !.op = "add_de_bruijn_edges",
                                      !.v1 = v, !.links = links,
                                      !.skipped = r.skipped]
            /\ UNCHANGED <<graph, edges_register, reg_built, Q, title, dna,
                           visited, path, cat, gpc, ret>>

\* the last call returns to its caller, which drops the returned value;
\* the core is single-threaded: the next operation starts after the return
Return ==
    /\ call.op # "none"
    /\ gpc # "loop"
    /\ call' = NoCall
    /\ Q' = NoQ
    /\ dna' = <<>>
    /\ visited' = {} /\ path' = <<>> /\ cat' = None /\ gpc' = "idle"
    /\ ret' = NoRet
    /\ UNCHANGED <<G, graph, edges_register, reg_built, title>>

\* the variables the register, QUBO, reconstruction and search never touch
IdleSigned == G = EmptyMultiDiGraph

\* the variables the register and QUBO operations never touch
IdleQubo ==
    /\ graph = EmptyDiGraph /\ edges_register = EmptyBidict
    /\ reg_built = FALSE /\ Q = NoQ

\* the variables the reconstruction never touches
IdleDna == title = [n \in Nodes |-> <<>>] /\ dna = <<>>

\* the variables the greedy search never touches
IdleGreedy == visited = {} /\ path = <<>> /\ cat = None /\ gpc = "idle"

\* no function of ortools/tools.py has returned anything
IdleBlocks == ret = NoRet

InitSigned ==
    /\ G = EmptyMultiDiGraph /\ call = NoCall
    /\ IdleQubo /\ IdleDna /\ IdleGreedy /\ IdleBlocks

NextSigned == AddEdgeCall \/ AddEdgesCall \/ Return

SpecSigned == InitSigned /\ [][NextSigned]_vars

(***************************************************************************)
(* Operations on the path problem: graph mutation, register, QUBO          *)
(***************************************************************************)
\* the 'weight' attributes given to an edge: none, or a number
Weights == {<<>>, <<2>>}

\* the reward weights delta and the penalty weights alpha, beta, gamma
Deltas == {1, 2}

Penalties == {0, 5}

\* the (start, finish) arguments: none, a start only, a finish only, two
\* different nodes, the same node twice
EndPairs == {<<None, None>>, <<"A", None>>, <<None, "A">>,
             <<"A", "B">>, <<"A", "A">>}

\* the call of graph_to_QUBO.main: delta=10, alpha=1, beta=1, gamma=5
MainConfig == {<<10, 1, 1, 5>>}

\* the caller adds an edge to the graph the problem holds
DGAddEdge(W) ==
    \E u \in Nodes, v \in Nodes, w \in W :
        /\ call.op = "none"
        /\ Cardinality(EdgeSet(graph) \cup {<<u, v>>}) <= MaxEdges
        /\ graph' = DG_add_edge(graph, u, v, w)
        /\ graph' # graph
        /\ UNCHANGED <<G, call, edges_register, reg_built, Q, title, dna,
                       visited, path, cat, gpc, ret>>

\* the caller removes an edge from the graph the problem holds
DGRemoveEdge ==
    \E e \in EdgeSet(graph) :
        /\ call.op = "none"
        /\ graph' = DG_remove_edge(graph, e[1], e[2])
        /\ UNCHANGED <<G, call, edges_register, reg_built, Q, title, dna,
                       visited, path, cat, gpc, ret>>

\* prob.update_edges_register()
UpdateRegister ==
    /\ call.op = "none"
    /\ edges_register' = update_edges_register(graph)
    /\ reg_built' = TRUE
    /\ call' = [NoCall EXCEPT !.op = "update_edges_register"]
    /\ UNCHANGED <<G, graph, Q, title, dna, visited, path, cat, gpc, ret>>

\* get_qubo(prob, delta, alpha, beta, gamma, start, finish)
GetQuboCall(Configs, ends) ==
    \E c \in Configs, e \in ends :
        /\ call.op = "none"
        /\ Q' = get_qubo(graph, edges_register, c[1], c[2], c[3], c[4],
                         e[1], e[2])
        /\ call' = [NoCall EXCEPT !.op = "get_qubo",
                                  !.delta = c[1], !.alpha = c[2],
                                  !.beta = c[3], !.gamma = c[4],
                                  !.start = e[1], !.finish = e[2]]
        /\ UNCHANGED <<G, graph, edges_register, reg_built, title, dna,
                       visited, path, cat, gpc, ret>>

\* A problem whose graph the caller goes on changing: the register can be
\* missing or stale when the matrix is assembled.
InitRegister ==
    /\ call = NoCall /\ IdleSigned /\ IdleQubo /\ IdleDna /\ IdleGreedy /\ IdleBlocks

NextRegister ==
    \/ DGAddEdge({<<>>})
    \/ DGRemoveEdge
    \/ UpdateRegister
    \/ GetQuboCall(MainConfig, {<<None, None>>})
    \/ Return

SpecRegister == InitRegister /\ [][NextRegister]_vars

\* The pipeline of graph_to_QUBO.main: the graph is built, the register is
\* built from it, then the matrix is assembled.
InitQubo ==
    /\ call = NoCall /\ IdleSigned /\ IdleQubo /\ IdleDna /\ IdleGreedy /\ IdleBlocks

NextQubo ==
    \/ (~reg_built /\ DGAddEdge(Weights))
    \/ (~reg_built /\ UpdateRegister)
    \/ (reg_built /\ GetQuboCall(Deltas \X Penalties \X Penalties \X Penalties,
                                 EndPairs))
    \/ Return

SpecQubo == InitQubo /\ [][NextQubo]_vars

(***************************************************************************)
(* Operations of the reconstruction and of the greedy search               *)
(***************************************************************************)
\* the nucleotides of the model
Bases == {"A", "C"}

\* the DNA fragments of at most n nucleotides
RECURSIVE DnaStrings(_)
DnaStrings(n) ==
    IF n = 0 THEN {<<>>}
    ELSE DnaStrings(n - 1) \cup
         {Append(d, b) : d \in {e \in DnaStrings(n - 1) : Len(e) = n - 1},
                         b \in Bases}

\* the lists of 1 to n nodes
RECURSIVE NodeLists(_)
NodeLists(n) ==
    IF n = 1 THEN {<<x>> : x \in Nodes}
    ELSE NodeLists(n - 1) \cup
         {Append(l, x) : l \in {m \in NodeLists(n - 1) : Len(m) = n - 1},
                         x \in Nodes}

\* recontruct_DNA(G, path_on_graph, k)
ReconstructCall ==
    \E path_on_graph \in NodeLists(MaxPathLen), k \in 0..MaxK :
        LET r == recontruct_DNA(title, path_on_graph, k)
        IN  /\ call.op = "none"
            /\ dna' = r.dna
            /\ call' = [NoCall EXCEPT !.op = "recontruct_DNA",
                                      !.nodes = path_on_graph, !.k = k,
                                      !.skipped = r.errors]
            /\ UNCHANGED <<G, graph, edges_register, reg_built, Q, title,
                           visited, path, cat, gpc, ret>>

\* A graph whose nodes carry any DNA fragments, and reconstructions on it.
InitDna ==
    /\ call = NoCall /\ IdleSigned /\ IdleQubo /\ IdleGreedy /\ IdleBlocks
    /\ title \in [Nodes -> DnaStrings(MaxSeqLen)]
    /\ dna = <<>>

NextDna == ReconstructCall \/ Return

SpecDna == InitDna /\ [][NextDna]_vars

\* find_path_always_first_neighbor(G, starting_point) is entered
GreedyCall ==
    \E starting_point \in Nodes :
        LET st == greedy_start(starting_point)
        IN  /\ call.op = "none" /\ gpc = "idle"
            /\ visited' = st.visited /\ path' = st.path
            /\ cat' = st.cat /\ gpc' = st.pc
            /\ call' = [NoCall EXCEPT !.op = "find_path_always_first_neighbor",
                                      !.start = starting_point]
            /\ UNCHANGED <<G, graph, edges_register, reg_built, Q, title, dna, ret>>

\* one iteration of the loop of find_path_always_first_neighbor
GreedyIter ==
    LET st == greedy_iteration(graph, GreedyState(visited, path, cat, gpc))
    IN  /\ gpc = "loop"
        /\ visited' = st.visited /\ path' = st.path
        /\ cat' = st.cat /\ gpc' = st.pc
        /\ UNCHANGED <<G, call, graph, edges_register, reg_built, Q, title, dna, ret>>

\* A graph built edge by edge, and greedy searches on it.
InitGreedy ==
    /\ call = NoCall /\ IdleSigned /\ IdleQubo /\ IdleDna /\ IdleGreedy /\ IdleBlocks

NextGreedy ==
    \/ DGAddEdge({<<>>})
    \/ GreedyCall
    \/ GreedyIter
    \/ Return

SpecGreedy == InitGreedy /\ [][NextGreedy]_vars

\* the search is a sequential loop: an iteration that can run does run
SpecGreedyFair == SpecGreedy /\ WF_vars(GreedyIter)

(***************************************************************************)
(* Operations on a graph that is decomposed into Blocks                    *)
(***************************************************************************)
\* the caller adds an edge to the graph
BlocksAddEdge ==
    \E u \in Nodes, v \in Nodes :
        /\ call.op = "none"
        /\ Cardinality(EdgeSet(graph) \cup {<<u, v>>}) <= MaxBlockEdges
        /\ graph' = DG_add_edge(graph, u, v, <<>>)
        /\ graph' # graph
        /\ UNCHANGED <<G, call, edges_register, reg_built, Q, title, dna,
                       visited, path, cat, gpc, ret>>

\* bridge_graph(G)
BridgeGraphCall ==
    /\ call.op = "none"
    /\ ret' = bridge_graph(graph)
    /\ call' = [NoCall EXCEPT !.op = "bridge_graph"]
    /\ UNCHANGED <<G, graph, edges_register, reg_built, Q, title, dna,
                   visited, path, cat, gpc>>

\* decomposition(G)
DecompositionCall ==
    /\ call.op = "none"
    /\ ret' = decomposition(graph)
    /\ call' = [NoCall EXCEPT !.op = "decomposition"]
    /\ UNCHANGED <<G, graph, edges_register, reg_built, Q, title, dna,
                   visited, path, cat, gpc>>

\* A graph built edge by edge, its bridges and its Blocks.
InitBlocks ==
    /\ call = NoCall /\ IdleSigned /\ IdleQubo /\ IdleDna /\ IdleGreedy /\ IdleBlocks

NextBlocks ==
    \/ BlocksAddEdge
    \/ BridgeGraphCall
    \/ DecompositionCall
    \/ Return

SpecBlocks == InitBlocks /\ [][NextBlocks]_vars

\* the lists of distinct nodes: the bridges given to sharing_node_subgraph
DistinctNodeLists ==
    {<<>>} \cup {l \in NodeLists(Cardinality(Nodes)) :
                    \A i \in 1..Len(l), j \in 1..Len(l) : i # j => l[i] # l[j]}

\* the lists of 0 to n Blocks, a Block given by the bridges it contains
RECURSIVE BlockLists(_)
BlockLists(n) ==
    IF n = 0 THEN {<<>>}
    ELSE BlockLists(n - 1) \cup
         {Append(l, [nodes |-> S, edges |-> {}, nature |-> [x \in Nodes |-> "none"]]) :
             l \in {m \in BlockLists(n - 1) : Len(m) = n - 1}, S \in SUBSET Nodes}

\* sharing_node_subgraph(node_bridge, list_subgraph)
SharingCall ==
    \E node_bridge \in DistinctNodeLists, list_subgraph \in BlockLists(MaxBlocks) :
        /\ call.op = "none"
        /\ ret' = [node_bridge |-> node_bridge, list_subgraph |-> list_subgraph,
                   out |-> sharing_node_subgraph(node_bridge, list_subgraph)]
        /\ call' = [NoCall EXCEPT !.op = "sharing_node_subgraph"]
        /\ UNCHANGED <<G, graph, edges_register, reg_built, Q, title, dna,
                       visited, path, cat, gpc>>

\* sharing_node_subgraph(node_bridge, list_subgraph) with node_bridge =
\* bridge_graph(G) and list_subgraph the Blocks of decomposition(G)
BridgeTableCall ==
    LET node_bridge == bridge_graph(graph)
        list_subgraph == decomposition(graph).list_subgraph
    IN  /\ call.op = "none"
        /\ ret' = [node_bridge |-> node_bridge, list_subgraph |-> list_subgraph,
                   out |-> sharing_node_subgraph(node_bridge, list_subgraph)]
        /\ call' = [NoCall EXCEPT !.op = "bridge_table"]
        /\ UNCHANGED <<G, graph, edges_register, reg_built, Q, title, dna,
                       visited, path, cat, gpc>>

\* A graph built edge by edge, and the bridge tables of its decomposition.
InitTable ==
    /\ call = NoCall /\ IdleSigned /\ IdleQubo /\ IdleDna /\ IdleGreedy /\ IdleBlocks

NextTable ==
    \/ BlocksAddEdge
    \/ BridgeTableCall
    \/ Return

SpecTable == InitTable /\ [][NextTable]_vars

\* The bridge tables built for any bridges and any Blocks.
InitSharing ==
    /\ call = NoCall /\ IdleSigned /\ IdleQubo /\ IdleDna /\ IdleGreedy /\ IdleBlocks

NextSharing == SharingCall \/ Return

SpecSharing == InitSharing /\ [][NextSharing]_vars

(***************************************************************************)
(* Operations of the strand expansion                                      *)
(***************************************************************************)
\* the segment ids: A, B and a segment that is named cA
StrandSegs == Segs \cup {<<"c", "A">>}

\* the sequences of the segments: empty, valid, and with a character that
\* is no nucleotide
StrandSeqs == {<<>>, <<"A", "C">>, <<"N">>}

\* add_de_bruijn_edge(G, v1, v2, s1, s2) with parsed (valid) signs
StrandAddEdge ==
    \E v1 \in StrandSegs, v2 \in StrandSegs, s1 \in {Plus, Minus}, s2 \in {Plus, Minus} :
        /\ call.op = "none"
        /\ Cardinality(stored_links(G)) < 2 * MaxStrandCalls
        /\ G' = add_de_bruijn_edge(G, v1, v2, s1, s2).g
        /\ G' # G
        /\ UNCHANGED <<call, graph, edges_register, reg_built, Q, title, dna,
                       visited, path, cat, gpc, ret>>

\* convert_de_bruijn_to_digraph(G)
ConvertCall ==
    /\ call.op = "none"
    /\ ret' = convert_de_bruijn_to_digraph(G, title)
    /\ call' = [NoCall EXCEPT !.op = "convert_de_bruijn_to_digraph"]
    /\ UNCHANGED <<G, graph, edges_register, reg_built, Q, title, dna,
                   visited, path, cat, gpc>>

\* A signed graph whose segments all have an entry (a node with a title),
\* links added to it, and its strand expansion.
InitStrand ==
    /\ call = NoCall /\ IdleQubo /\ IdleGreedy /\ IdleBlocks
    /\ G = [nodes |-> StrandSegs, adj |-> [p \in StrandSegs \X StrandSegs |-> <<>>]]
    /\ title \in [StrandSegs -> StrandSeqs]
    /\ dna = <<>>

NextStrand == StrandAddEdge \/ ConvertCall \/ Return

SpecStrand == InitStrand /\ [][NextStrand]_vars

(***************************************************************************)
(* Operations of the exhaustive searches and of the path check             *)
(***************************************************************************)
\* find_longest_path_dfs(G, starting_point)
LongestPathCall ==
    \E starting_point \in Nodes :
        /\ call.op = "none"
        /\ ret' = find_longest_path_dfs(graph, starting_point)
        /\ call' = [NoCall EXCEPT !.op = "find_longest_path_dfs",
                                  !.start = starting_point]
        /\ UNCHANGED <<G, graph, edges_register, reg_built, Q, title, dna,
                       visited, path, cat, gpc>>

\* GraphPathProblem.find_longest_dna_path_dfs_to(finish_point) on a problem
\* whose k_mer is k
LongestDnaPathToCall ==
    \E finish_point \in Nodes, k \in 0..MaxK :
        /\ call.op = "none"
        /\ ret' = find_longest_dna_path_dfs_to(graph, finish_point)
        /\ call' = [NoCall EXCEPT !.op = "find_longest_dna_path_dfs_to",
                                  !.finish = finish_point, !.k = k]
        /\ UNCHANGED <<G, graph, edges_register, reg_built, Q, title, dna,
                       visited, path, cat, gpc>>

\* check_path(G)
CheckPathCall ==
    /\ call.op = "none"
    /\ ret' = [accepted |-> check_path(graph)]
    /\ call' = [NoCall EXCEPT !.op = "check_path"]
    /\ UNCHANGED <<G, graph, edges_register, reg_built, Q, title, dna,
                   visited, path, cat, gpc>>

\* recontruct_path(G)
ReconstructPathCall ==
    /\ call.op = "none"
    /\ ret' = recontruct_path(graph)
    /\ call' = [NoCall EXCEPT !.op = "recontruct_path"]
    /\ UNCHANGED <<G, graph, edges_register, reg_built, Q, title, dna,
                   visited, path, cat, gpc>>

\* the 'title' attributes of the nodes of the searched graphs
SearchTitles ==
    {[n \in Nodes |-> <<>>],
     [n \in Nodes |-> IF n = "A" THEN <<"A", "C">> ELSE <<"C">>]}

\* A graph built edge by edge, and searches and checks on it.
InitSearch ==
    /\ call = NoCall /\ IdleSigned /\ IdleQubo /\ IdleGreedy /\ IdleBlocks
    /\ title \in SearchTitles /\ dna = <<>>

NextSearch ==
    \/ BlocksAddEdge
    \/ LongestPathCall
    \/ LongestDnaPathToCall
    \/ CheckPathCall
    \/ ReconstructPathCall
    \/ Return

SpecSearch == InitSearch /\ [][NextSearch]_vars

(***************************************************************************)
(* Properties of the signed multigraph                                     *)
(***************************************************************************)
\* the (u, v, sign_begin, sign_end) tuples a link can have
LinkTuples == Segs \X Segs \X {Plus, Minus} \X {Plus, Minus}

\* the raw link is a well-formed 'L:<sign1>:<target>:<sign2>' to target t
IsLinkTo(link, s1, t, s2) ==
    /\ s1 \in {Plus, Minus} /\ s2 \in {Plus, Minus}
    /\ \E i \in 1..Len(link), j \in 1..Len(link) :
          /\ i <= j
          /\ SubSeq(link, i, j) = LinkStr(s1, t, s2)
          /\ \A m \in 1..Len(link) : (m < i \/ m > j) => link[m] = " "

\* C1: after any sequence of link insertions, every stored link
\* (u, v, s1, s2) has its mirror (v, u, reverse(s2), reverse(s1)) stored too.
C1_MirrorStored ==
    \A p \in Segs \X Segs : \A key \in 1..Len(G.adj[p]) :
        LET a == G.adj[p][key]
        IN  \E k2 \in 1..Len(G.adj[<<p[2], p[1]>>]) :
               G.adj[<<p[2], p[1]>>][k2] =
                   Attrs(reverse_sign(a.sign_end), reverse_sign(a.sign_begin))

\* C1 witness: two different links between distinct segments were inserted
\* and a further insertion of an already stored link left the graph alone.
C1_Witness ==
    /\ NumStored(G) = 4
    /\ Len(G.adj[<<(<<"A">>), (<<"B">>)>>]) = 2
    /\ call.op = "add_de_bruijn_edge" /\ ~call.raised
    /\ CountLinks(G, call.v1, call.v2, call.s1, call.s2) = 1
    /\ call.v1 = <<"B">> /\ call.v2 = <<"A">>

\* C2: for every tuple (u, v, sign_begin, sign_end), u = v included, the
\* signed graph stores at most one link with that tuple.
C2_AtMostOneLinkPerTuple ==
    \A t \in LinkTuples : CountLinks(G, t[1], t[2], t[3], t[4]) <= 1

\* C3: every add_de_bruijn_edge call adds the link together with its mirror
\* or leaves the graph unchanged; with a sign outside {+,-} it raises and adds
\* nothing; add_de_bruijn_edges goes on after a rejected link: every
\* well-formed link of its list is stored afterwards, with its mirror, and
\* every other link of the list is skipped with one diagnostic.
C3_InsertionAtomic ==
    [][ /\ call'.op = "add_de_bruijn_edge" =>
            /\ \/ G' = G
               \/ G' = MG_add_edge(
                           MG_add_edge(G, call'.v1, call'.v2, call'.s1, call'.s2),
                           call'.v2, call'.v1,
                           reverse_sign(call'.s2), reverse_sign(call'.s1))
            /\ (call'.s1 \notin {Plus, Minus} \/ call'.s2 \notin {Plus, Minus})
                   => (call'.raised /\ G' = G)
            /\ (call'.s1 \in {Plus, Minus} /\ call'.s2 \in {Plus, Minus})
                   => ~call'.raised
        /\ call'.op = "add_de_bruijn_edges" =>
            /\ \A i \in 1..Len(call'.links) :
                  \A s1 \in SignArgs, s2 \in SignArgs, t \in Segs :
                     IsLinkTo(call'.links[i], s1, t, s2) =>
                        /\ CountLinks(G', call'.v1, t, s1, s2) >= 1
                        /\ CountLinks(G', t, call'.v1,
                                      reverse_sign(s2), reverse_sign(s1)) >= 1
            /\ call'.skipped =
                  Cardinality({i \in 1..Len(call'.links) :
                      ~\E s1 \in SignArgs, s2 \in SignArgs, t \in Segs :
                          IsLinkTo(call'.links[i], s1, t, s2)})
            /\ \A t \in LinkTuples :
                  CountLinks(G', t[1], t[2], t[3], t[4])
                      - CountLinks(G, t[1], t[2], t[3], t[4])
                  = CountLinks(G', t[2], t[1], reverse_sign(t[4]), reverse_sign(t[3]))
                      - CountLinks(G, t[2], t[1], reverse_sign(t[4]), reverse_sign(t[3]))
      ]_vars

\* C3 witness: a build whose first link was rejected and whose second link
\* was inserted with its mirror.
C3_Witness ==
    /\ call.op = "add_de_bruijn_edges" /\ Len(call.links) = 2
    /\ call.skipped = 1
    /\ call.links[1] = LinkStr(<<"x">>, <<"B">>, Plus)
    /\ call.links[2] = LinkStr(Plus, <<"B">>, Plus)
    /\ call.v1 = <<"A">>
    /\ G.adj[<<(<<"A">>), (<<"B">>)>>] = <<Attrs(Plus, Plus)>>
    /\ G.adj[<<(<<"B">>), (<<"A">>)>>] = <<Attrs(Minus, Minus)>>

(***************************************************************************)
(* Properties of the edge register and of the QUBO matrix                  *)
(***************************************************************************)
\* C4: after update_edges_register the register is a bijection between the
\* graph's edges and 0..|E|-1: indexOf(edgeOf(i)) = i for every index,
\* edgeOf(indexOf(e)) = e for every edge, and its size is the edge count.
C4_RegisterBijection ==
    call.op = "update_edges_register" =>
        LET E == EdgeSet(graph)
            n == Cardinality(E)
        IN  /\ ~edges_register.dup
            /\ DOMAIN edges_register.fwd = E
            /\ DOMAIN edges_register.inv = 0..(n - 1)
            /\ \A i \in 0..(n - 1) :
                  edges_register.fwd[edges_register.inv[i]] = i
            /\ \A e \in E : edges_register.inv[edges_register.fwd[e]] = e
            /\ RegLen(edges_register) = n

\* C4 witness: the register was rebuilt for a graph with two edges, after an
\* earlier register had been built for another edge set.
C4_Witness ==
    /\ call.op = "update_edges_register"
    /\ Cardinality(EdgeSet(graph)) = MaxEdges
    /\ \E u \in Nodes : Len(graph.succ[u]) = 2
    /\ graph.succ[graph.nodes[1]] = <<>>

\* the register is stale or missing: its keys are not the graph's edges, or
\* it was never built
Stale == EdgeSet(graph) # DOMAIN edges_register.fwd \/ ~reg_built

C6_Symmetric ==
    (call.op = "get_qubo" /\ Q.status = "ok") =>
        \A i \in 0..(Q.n - 1), j \in 0..(Q.n - 1) :
            Q.m[<<i, j>>] = Q.m[<<j, i>>]

\* C6 witness: a matrix built with a flow penalty and a start node for a
\* graph in which an incoming and an outgoing edge meet, with an
\* off-diagonal entry that is not 0.
C6_Witness ==
    /\ call.op = "get_qubo" /\ Q.status = "ok" /\ Q.n = 2
    /\ call.gamma = 5 /\ call.start # None
    /\ Q.m[<<0, 1>>] # 0
    /\ \E u \in Nodes : graph.succ[u] # <<>> /\ graph.pred[u] # <<>>

\* C7: with alpha = beta = gamma = 0, delta = 1 and no start or finish node
\* the matrix is diagonal and Q[i,i] is the intrinsic weight of edge i (1 when
\* the edge has no weight).
C7_DiagonalOfWeights ==
    (/\ call.op = "get_qubo" /\ Q.status = "ok"
     /\ call.delta = 1 /\ call.alpha = 0 /\ call.beta = 0 /\ call.gamma = 0
     /\ call.start = None /\ call.finish = None) =>
        /\ Q.n = Cardinality(EdgeSet(graph))
        /\ \A i \in 0..(Q.n - 1), j \in 0..(Q.n - 1) :
              Q.m[<<i, j>>] =
                 IF i # j THEN 0
                 ELSE LET e == edges_register.inv[i]
                      IN  IF graph.weight[e] = <<>> THEN 1 ELSE graph.weight[e][1]

\* C7 witness: such a matrix for two edges, one weighted and one not.
C7_Witness ==
    /\ call.op = "get_qubo" /\ Q.status = "ok" /\ Q.n = 2
    /\ call.delta = 1 /\ call.alpha = 0 /\ call.beta = 0 /\ call.gamma = 0
    /\ call.start = None /\ call.finish = None
    /\ Q.m[<<0, 0>>] = 2 /\ Q.m[<<1, 1>>] = 1

\* x^T Q x for the bit vector x (a function from 0..n-1 to {0,1})
RECURSIVE SumOver(_, _, _)
SumOver(M, x, ps) ==
    IF ps = {} THEN 0
    ELSE LET p == CHOOSE q \in ps : TRUE
         IN  x[p[1]] * M[p] * x[p[2]] + SumOver(M, x, ps \ {p})

Energy(M, x) == SumOver(M, x, DOMAIN M)

\* the bit vectors that minimise x^T Q x
Minimisers(M, n) ==
    {x \in [0..(n - 1) -> {0, 1}] :
        \A y \in [0..(n - 1) -> {0, 1}] : Energy(M, x) <= Energy(M, y)}

\* the graph is the chain A -> B -> C with weights 1
IsChainABC ==
    /\ EdgeSet(graph) = {<<"A", "B">>, <<"B", "C">>}
    /\ EdgeWeight(graph, "A", "B") = 1 /\ EdgeWeight(graph, "B", "C") = 1

\* C8: for the chain A -> B -> C with weights 1, delta = 1,
\* alpha = beta = gamma = 5 and no start or finish node, the minimiser of
\* x^T Q x is unique and selects both edges.
C8_ChainMinimiserSelectsBoth ==
    (/\ call.op = "get_qubo" /\ Q.status = "ok" /\ IsChainABC
     /\ call.delta = 1 /\ call.alpha = 5 /\ call.beta = 5 /\ call.gamma = 5
     /\ call.start = None /\ call.finish = None) =>
        Minimisers(Q.m, Q.n) =
            {[i \in 0..1 |-> 1]}

\* C8 witness: the matrix of the chain, [[1, -10], [-10, 1]], was built, with
\* A -> B registered at 0 and B -> C at 1.
C8_Witness ==
    /\ call.op = "get_qubo" /\ Q.status = "ok" /\ IsChainABC
    /\ call.delta = 1 /\ call.alpha = 5 /\ call.beta = 5 /\ call.gamma = 5
    /\ call.start = None /\ call.finish = None
    /\ edges_register.fwd[<<"A", "B">>] = 0
    /\ edges_register.fwd[<<"B", "C">>] = 1
    /\ Q.m = [p \in (0..1) \X (0..1) |-> IF p[1] = p[2] THEN 1 ELSE -10]

(***************************************************************************)
(* Properties of the reconstruction and of the greedy search               *)
(***************************************************************************)
\* the sum of f[i] for i in lo..hi
RECURSIVE SumFromTo(_, _, _)
SumFromTo(f, lo, hi) == IF lo > hi THEN 0 ELSE f[lo] + SumFromTo(f, lo + 1, hi)

\* the sequences of the nodes of the path are at least k long and
\* consecutive sequences overlap on k characters
ConsistentPath(t, p, k) ==
    /\ \A i \in 1..Len(p) : Len(t[p[i]]) >= k
    /\ \A i \in 1..(Len(p) - 1) :
          SubSeq(t[p[i]], Len(t[p[i]]) - k + 1, Len(t[p[i]]))
              = SubSeq(t[p[i + 1]], 1, k)

\* C9: for a path of m >= 1 nodes with sequences of lengths L1..Lm, each at
\* least k, overlapping consistently on k characters, recontruct_DNA returns
\* a string of length L1 + sum over i = 2..m of (Li - k).
C9_LengthLaw ==
    (call.op = "recontruct_DNA" /\ ConsistentPath(title, call.nodes, call.k)) =>
        LET L == [i \in 1..Len(call.nodes) |-> Len(title[call.nodes[i]])]
        IN  Len(dna) = L[1] + SumFromTo([i \in 1..Len(L) |-> L[i] - call.k],
                                        2, Len(L))

\* C9 witness: the nodes A, B, C with different sequences of length 2 overlapping
\* on k = 1 were stitched into a string of length 4.
C9_Witness ==
    /\ call.op = "recontruct_DNA" /\ call.k = 1 /\ call.nodes = <<"A", "B", "C">>
    /\ ConsistentPath(title, call.nodes, call.k)
    /\ \A i \in 1..3 : Len(title[call.nodes[i]]) = 2
    /\ title[call.nodes[1]] # title[call.nodes[2]]
    /\ Len(dna) = 4 /\ call.skipped = 0

\* the list p starts at the node s, repeats no node and follows edges of g
IsSimplePathFrom(g, p, s) ==
    /\ Len(p) >= 1 /\ p[1] = s
    /\ \A i \in 1..Len(p), j \in 1..Len(p) : i # j => p[i] # p[j]
    /\ \A i \in 1..(Len(p) - 1) : <<p[i], p[i + 1]>> \in EdgeSet(g)

\* C10: find_path_always_first_neighbor terminates on every graph and start
\* node, also with a directed cycle reachable from the start node: every
\* iteration that stays in the loop visits a new node, the loop is left, and
\* the list returned starts at the start node, repeats no node and follows
\* edges of the graph.
C10_GreedyTerminates ==
    /\ [](gpc \in {"loop", "done"} => IsSimplePathFrom(graph, path, call.start))
    /\ [][(gpc = "loop" /\ gpc' = "loop") =>
             /\ Cardinality(visited') = Cardinality(visited) + 1
             /\ visited' \subseteq {graph.nodes[i] : i \in 1..Len(graph.nodes)}]_vars
    /\ (gpc = "loop") ~> (gpc \in {"done", "error"})

\* C10 witness: on the cycle A -> B -> A the search from A returned [A, B].
C10_Witness ==
    /\ gpc = "done" /\ call.start = "A"
    /\ EdgeSet(graph) = {<<"A", "B">>, <<"B", "A">>}
    /\ path = <<"A", "B">>

(***************************************************************************)
(* Properties of the bridges and of the Blocks                             *)
(***************************************************************************)
\* the bridge nodes: exactly one incoming and exactly one outgoing edge
Bridges(g) == {n \in ToSet(g.nodes) : in_degree(g, n) = 1 /\ out_degree(g, n) = 1}

\* C11: bridge_graph returns exactly the nodes whose in-degree is 1 and
\* whose out-degree is 1.
C11_ExactlyTheBridges ==
    call.op = "bridge_graph" => ToSet(ret) = Bridges(graph)

\* the number of Blocks of the list that contain the node n
BlocksWith(list_subgraph, n) ==
    Cardinality({i \in 1..Len(list_subgraph) : n \in list_subgraph[i].nodes})

\* C12: when every bridge node is shared by exactly two Blocks, the Blocks
\* returned by decomposition reproduce the original node set exactly once:
\* every original node is in some Block, every non-bridge node is in exactly
\* one Block, and no Block has a node that is not in the original graph.
C12_BlocksReproduceNodes ==
    (/\ call.op = "decomposition"
     /\ \A b \in Bridges(graph) : BlocksWith(ret.list_subgraph, b) = 2) =>
        /\ \A n \in ToSet(graph.nodes) : BlocksWith(ret.list_subgraph, n) >= 1
        /\ \A n \in ToSet(graph.nodes) \ Bridges(graph) :
              BlocksWith(ret.list_subgraph, n) = 1
        /\ \A i \in 1..Len(ret.list_subgraph) :
              ret.list_subgraph[i].nodes \subseteq ToSet(graph.nodes)

\* C17: in every Block returned by decomposition, each bridge whose recorded
\* predecessor lies in that Block is present with the edge
\* predecessor -> bridge and carries the tag end_node there, and each bridge
\* whose recorded successor lies in that Block is present with the edge
\* bridge -> successor and carries the tag start_node there.
C17_BridgeTaggedByRole ==
    call.op = "decomposition" =>
        \A i \in 1..Len(ret.list_subgraph), k \in 1..Len(ret.node_deg_2) :
            LET block == ret.list_subgraph[i]
                b == ret.node_deg_2[k]
            IN  /\ ret.node_pre[k] \in block.nodes =>
                      /\ b \in block.nodes
                      /\ <<ret.node_pre[k], b>> \in block.edges
                      /\ block.nature[b] = "end_node"
                /\ ret.node_suc[k] \in block.nodes =>
                      /\ b \in block.nodes
                      /\ <<b, ret.node_suc[k]>> \in block.edges
                      /\ block.nature[b] = "start_node"

\* the Blocks of the list that contain the bridge b
BlocksOf(list_subgraph, b) ==
    {i \in 1..Len(list_subgraph) : b \in list_subgraph[i].nodes}

\* C13: when a bridge is contained in more than two Blocks, building the
\* bridge tables flags or rejects that case (the call does not return tables
\* as if the bridge were shared by two Blocks).
C13_MoreThanTwoRejected ==
    (/\ call.op = "sharing_node_subgraph"
     /\ \E b \in ToSet(ret.node_bridge) :
            Cardinality(BlocksOf(ret.list_subgraph, b)) > 2) =>
        ret.out.status # "ok"

\* C18: in the bridge-group table, any two bridges that are contained in the
\* same pair of Blocks are in the same group, whatever the number and the
\* order of the bridges.
C18_SamePairSameGroup ==
    (call.op = "sharing_node_subgraph" /\ ret.out.status = "ok") =>
        \A b1 \in ToSet(ret.node_bridge), b2 \in ToSet(ret.node_bridge) :
            (/\ Cardinality(BlocksOf(ret.list_subgraph, b1)) = 2
             /\ BlocksOf(ret.list_subgraph, b1) = BlocksOf(ret.list_subgraph, b2)) =>
                \E k \in 1..Len(ret.out.registre_bridge_int) :
                    /\ InSeq(b1, ret.out.registre_bridge_int[k])
                    /\ InSeq(b2, ret.out.registre_bridge_int[k])

(***************************************************************************)
(* Properties of the terms of the QUBO matrix                              *)
(***************************************************************************)
\* the matrix get_qubo returns for the arguments of the last call, with the
\* given delta, start and finish instead
QuboWith(delta, start, finish) ==
    get_qubo(graph, edges_register, delta, call.alpha, call.beta, call.gamma,
             start, finish).m

\* the diagonal entry of the edge e in the matrix M
DiagOf(M, e) == M[<<edges_register.fwd[e], edges_register.fwd[e]>>]

\* C14: with gamma > 0, a start node makes the diagonal entry of each of its
\* outgoing edges smaller and that of each of its incoming edges larger than
\* in the matrix built with the same arguments and no start node; a finish
\* node makes the entries of its incoming edges smaller and those of its
\* outgoing edges larger (self loops, which are both, aside).
C14_StartFinishBias ==
    (call.op = "get_qubo" /\ Q.status = "ok" /\ call.gamma > 0) =>
        /\ call.start # None =>
              \A e \in EdgeSet(graph) :
                  /\ (e[1] = call.start /\ e[2] # call.start) =>
                        DiagOf(Q.m, e) < DiagOf(QuboWith(call.delta, None, call.finish), e)
                  /\ (e[2] = call.start /\ e[1] # call.start) =>
                        DiagOf(Q.m, e) > DiagOf(QuboWith(call.delta, None, call.finish), e)
        /\ call.finish # None =>
              \A e \in EdgeSet(graph) :
                  /\ (e[2] = call.finish /\ e[1] # call.finish) =>
                        DiagOf(Q.m, e) < DiagOf(QuboWith(call.delta, call.start, None), e)
                  /\ (e[1] = call.finish /\ e[2] # call.finish) =>
                        DiagOf(Q.m, e) > DiagOf(QuboWith(call.delta, call.start, None), e)

\* C15: for every edge i, the delta-dependent part of Q[i,i] (what the
\* entry gains over the matrix built with delta = 0) is -delta plus delta
\* times the weight of the edge.
C15_RewardTerm ==
    (call.op = "get_qubo" /\ Q.status = "ok") =>
        \A e \in EdgeSet(graph) :
            DiagOf(Q.m, e) - DiagOf(QuboWith(0, call.start, call.finish), e)
                = (0 - call.delta) + call.delta * EdgeWeight(graph, e[1], e[2])

\* C16: for a graph with unit weights, the same delta, alpha, beta, gamma
\* and no start or finish node, the bit vectors that minimise the objective
\* of opti_or_tool are exactly those that minimise x^T Q x, with the same
\* edge indexing.
C16_SameMinimisers ==
    (/\ call.op = "get_qubo" /\ Q.status = "ok"
     /\ call.start = None /\ call.finish = None
     /\ \A e \in EdgeSet(graph) : EdgeWeight(graph, e[1], e[2]) = 1
     /\ \A e \in EdgeSet(graph) : edges_register.fwd[e] = registre_edges(graph)[e]) =>
        Minimisers(Q.m, Q.n)
            = or_optimal(graph, call.alpha, call.beta, call.gamma, call.delta)

(***************************************************************************)
(* Properties of the strand expansion                                      *)
(***************************************************************************)
\* the complement node of the segment u
ComplementOf(u) == <<"c">> \o u

\* C19: after strand expansion the directed graph has an edge from -> to
\* exactly when some stored signed link (u, v, sign_begin, sign_end)
\* resolves to it, with from = u if sign_begin is '+' else the complement
\* node of u, and to = v if sign_end is '+' else the complement node of v.
C19_EdgesAreResolvedLinks ==
    (call.op = "convert_de_bruijn_to_digraph" /\ ret.status = "ok") =>
        \A from \in StrandSegs \cup {ComplementOf(u) : u \in StrandSegs},
           to \in StrandSegs \cup {ComplementOf(u) : u \in StrandSegs} :
            <<from, to>> \in ret.edges <=>
                \E l \in stored_links(G) :
                    /\ from = (IF l[3] = Plus THEN l[1] ELSE ComplementOf(l[1]))
                    /\ to = (IF l[4] = Plus THEN l[2] ELSE ComplementOf(l[2]))

\* C19 witness: the link (A, B, +, -) and its mirror (B, A, +, -) were
\* expanded to the edges A -> cB and B -> cA.
C19_Witness ==
    /\ call.op = "convert_de_bruijn_to_digraph" /\ ret.status = "ok"
    /\ stored_links(G) = {<<<<"A">>, <<"B">>, Plus, Minus>>,
                          <<<<"B">>, <<"A">>, Plus, Minus>>}
    /\ ret.edges = {<<<<"A">>, <<"c", "B">>>>, <<<<"B">>, <<"c", "A">>>>}

\* C20: after strand expansion, for every set of segment ids and links,
\* every retained forward node carries its segment's original sequence and
\* every retained complement node ("c" + id) carries the reverse complement
\* of that segment's sequence.
C20_NodesCarryOrientedSequence ==
    (call.op = "convert_de_bruijn_to_digraph" /\ ret.status = "ok") =>
        \A seg \in G.nodes :
            /\ seg \in ret.nodes => ret.title[seg] = title[seg]
            /\ ComplementOf(seg) \in ret.nodes =>
                  ret.title[ComplementOf(seg)] = reverse_complement(title[seg]).seq

\* the complements of the node x of the expanded graph: the "c" twin of a
\* forward node, and the forward node of a "c" twin
Twins(x) ==
    {ComplementOf(u) : u \in {v \in G.nodes : v = x}}
        \cup {u \in G.nodes : ComplementOf(u) = x}

\* C27: the directed graph produced by strand expansion of a signed graph
\* built through link insertions is closed under strand reversal: whenever
\* it has an edge x -> y it also has the edge from the complement of y to
\* the complement of x.
C27_ClosedUnderReversal ==
    (call.op = "convert_de_bruijn_to_digraph" /\ ret.status = "ok") =>
        \A e \in ret.edges :
            \E cy \in Twins(e[2]), cx \in Twins(e[1]) : <<cy, cx>> \in ret.edges

\* C27 witness: the link (A, B, +, +) and its mirror (B, A, -, -) were
\* expanded to the edge A -> B and its reversal cB -> cA.
C27_Witness ==
    /\ call.op = "convert_de_bruijn_to_digraph" /\ ret.status = "ok"
    /\ stored_links(G) = {<<<<"A">>, <<"B">>, Plus, Plus>>,
                          <<<<"B">>, <<"A">>, Minus, Minus>>}
    /\ ret.edges = {<<<<"A">>, <<"B">>>>, <<<<"c", "B">>, <<"c", "A">>>>}

(***************************************************************************)
(* Properties of the exhaustive searches and of the path check             *)
(***************************************************************************)
\* C21: for every graph and start node of it, find_longest_path_dfs returns
\* a simple path that begins at the start node, follows edges of the graph
\* and has the most nodes among all simple paths from that node; when it
\* returns, its working path and its visited set are empty again.
C21_LongestSimplePath ==
    (call.op = "find_longest_path_dfs" /\ InSeq(call.start, graph.nodes)) =>
        /\ ret.raised = "none"
        /\ IsSimplePathFrom(graph, ret.longest_path, call.start)
        /\ \A p \in DistinctNodeLists :
              IsSimplePathFrom(graph, p, call.start) =>
                  Len(p) <= Len(ret.longest_path)
        /\ ret.path = <<>> /\ ret.visited = {}

\* C21 witness: from A, with A -> B listed before A -> C and C -> B, the
\* search went past the dead end [A, B] and returned [A, C, B].
C21_Witness ==
    /\ call.op = "find_longest_path_dfs" /\ call.start = "A"
    /\ graph.succ["A"] = <<"B", "C">> /\ graph.succ["C"] = <<"B">>
    /\ graph.succ["B"] = <<>>
    /\ ret.longest_path = <<"A", "C", "B">>
    /\ ret.path = <<>> /\ ret.visited = {}

\* a list of distinct nodes that follows edges of g and ends at f
IsSimplePathTo(g, p, f) ==
    Len(p) >= 1 /\ p[Len(p)] = f /\ IsSimplePathFrom(g, p, p[1])

\* C22: for every graph and finish node of it, find_longest_dna_path_dfs_to
\* returns a simple path that ends at the finish node and whose
\* reconstructed sequence is as long as that of any simple path ending there.
C22_LongestDnaPathTo ==
    (call.op = "find_longest_dna_path_dfs_to"
        /\ InSeq(call.finish, graph.nodes)) =>
        /\ ret.raised = "none"
        /\ IsSimplePathTo(graph, ret.longest_path, call.finish)
        /\ \A p \in DistinctNodeLists :
              IsSimplePathTo(graph, p, call.finish) =>
                  Len(recontruct_DNA(title, p, call.k).dna)
                      <= Len(recontruct_DNA(title, ret.longest_path, call.k).dna)

\* g is a single directed simple path: one list of distinct nodes holds
\* every node of g, and the edges of g are exactly its consecutive pairs
IsSinglePath(g, p) ==
    /\ Len(p) >= 1 /\ ToSet(p) = ToSet(g.nodes)
    /\ \A i \in 1..Len(p), j \in 1..Len(p) : i # j => p[i] # p[j]
    /\ EdgeSet(g) = {<<p[i], p[i + 1]>> : i \in 1..(Len(p) - 1)}

\* C23: check_path(G) returns true exactly when G is a single directed
\* simple path, a connected graph whose path from its unique in-degree-0
\* node to its unique out-degree-0 node holds every node and every edge.
C23_AcceptsExactlyPaths ==
    call.op = "check_path" =>
        (ret.accepted <=> \E p \in DistinctNodeLists : IsSinglePath(graph, p))

\* C24: on every graph that check_path accepts, recontruct_path terminates
\* and returns a list that starts at the unique in-degree-0 node, has an
\* edge between every two consecutive nodes and holds every node of the
\* graph exactly once; on every graph that check_path rejects it returns no
\* path.
C24_ListsThePath ==
    call.op = "recontruct_path" =>
        IF check_path(graph)
        THEN /\ ret.status = "ok" /\ ret.returned = "list"
             /\ IsSimplePathFrom(graph, ret.list_nodes,
                                 nodes_in_degree_0(graph)[1])
             /\ ToSet(ret.list_nodes) = ToSet(graph.nodes)
        ELSE ret.status = "ok" /\ ret.returned = None

(***************************************************************************)
(* Properties of the bridge tables of a decomposition                      *)
(***************************************************************************)
\* the number of places of the list l that hold x
CountIn(l, x) == Cardinality({i \in 1..Len(l) : l[i] = x})

\* C25: for every graph, building the bridge-group table from the outputs of
\* bridge_graph and decomposition completes without error and places every
\* bridge in exactly one group, also a bridge whose predecessor and successor
\* lie in the same Block.
C25_TableCompletes ==
    call.op = "bridge_table" =>
        /\ ret.out.status = "ok"
        /\ \A b \in ToSet(ret.node_bridge) :
              /\ Cardinality({k \in 1..Len(ret.out.registre_bridge_int) :
                                 InSeq(b, ret.out.registre_bridge_int[k])}) = 1
              /\ \A k \in 1..Len(ret.out.registre_bridge_int) :
                    CountIn(ret.out.registre_bridge_int[k], b) <= 1

\* C26: every Block returned by decomposition is a subgraph of the original
\* graph: each of its edges, the boundary edges added for bridges included,
\* is an edge of the original graph.
C26_BlocksAreSubgraphs ==
    call.op = "decomposition" =>
        \A i \in 1..Len(ret.list_subgraph) :
            /\ ret.list_subgraph[i].nodes \subseteq ToSet(graph.nodes)
            /\ ret.list_subgraph[i].edges \subseteq EdgeSet(graph)

====
